---- MODULE Spec2Model ----
(***************************************************************************)
(* Model of the parable ingestion pipeline: the driver of main.py, one     *)
(* run_ingestion per Gutenberg id on a worker pool, and the MongoHandler   *)
(* store operations the runs share.                                        *)
(*                                                                         *)
(* Strings are sequences of one-character strings, so that clean_title    *)
(* and slugify are computed character by character.  ObjectIds are pairs  *)
(* <<collection tag, n>>.  A description text is carried as its length.   *)
(* Document fields that no operation reads back (bio, nationality, cover  *)
(* urls, chapters, ...) are not carried.                                  *)
(***************************************************************************)
EXTENDS Integers, Sequences, FiniteSets, TLC

\* ------------------------------------------------------------------ bounds
\* Number of Gutenberg ids in the driver's range (the program's range is
\* 1007..2000; the model scales it down).
NumIds == 2
\* Number of times the driver process is started.
MaxDriverRuns == 2
\* Number of run_ingestion calls submitted to the pool, over all driver runs:
\* the driver is started only while the calls it submits fit in this number.
MaxRuns == 3
\* Largest number of review snippets fetch_reviews yields in the model
\* (the program cuts the list at 3).
MaxSnippets == 1
\* the ids submitted to the pool where the pool alone is followed
NumPoolIds == 7

\* ------------------------------------------------------- program constants
MAX_WORKERS == 5
max_retries == 3
\* run_ingestion: a description shorter than this gives way to the excerpt
MinDescriptionLen == 100
\* parse_epub_details: the excerpt is the first paragraph longer than
\* MinParagraphLen, cut at ExcerptLen characters and followed by "..."
MinParagraphLen == 150
ExcerptLen == 400
\* parse_epub_details: page_count adds len(text) // 1500 per item
CharsPerPage == 1500
EllipsisLen == 3

\* ----------------------------------------------------------------- strings
UpperCase == <<"A","B","C","D","E","F","G","H","I","J","K","L","M",
               "N","O","P","Q","R","S","T","U","V","W","X","Y","Z">>
LowerCase == <<"a","b","c","d","e","f","g","h","i","j","k","l","m",
               "n","o","p","q","r","s","t","u","v","w","x","y","z">>
Digits == {"0","1","2","3","4","5","6","7","8","9"}

IsUpper(c) == \E i \in 1..26 : UpperCase[i] = c
IsLowerC(c) == \E i \in 1..26 : LowerCase[i] = c
IsSpace(c) == c = " "
IsAlnum(c) == IsUpper(c) \/ IsLowerC(c) \/ c \in Digits

\* str.lower() on one character
LowerChar(c) == IF IsUpper(c)
                THEN LowerCase[CHOOSE i \in 1..26 : UpperCase[i] = c]
                ELSE c

\* str.strip(): drop leading and trailing whitespace
RECURSIVE LStrip(_)
LStrip(s) == IF s # <<>> /\ IsSpace(Head(s)) THEN LStrip(Tail(s)) ELSE s

RECURSIVE RStrip(_)
RStrip(s) == IF s # <<>> /\ IsSpace(s[Len(s)])
             THEN RStrip(SubSeq(s, 1, Len(s) - 1)) ELSE s

Strip(s) == RStrip(LStrip(s))

\* whether the pattern \s+by\s+ (IGNORECASE) matches starting at position i
MatchesBy(s, i) ==
    \E j \in i..Len(s) :
        /\ \A k \in i..j : IsSpace(s[k])
        /\ j + 3 <= Len(s)
        /\ LowerChar(s[j + 1]) = "b"
        /\ LowerChar(s[j + 2]) = "y"
        /\ IsSpace(s[j + 3])

\* positions where re.split(r'\s+by\s+|;') finds a separator
SplitPoints(s) == {i \in 1..Len(s) : s[i] = ";" \/ MatchesBy(s, i)}

UnknownTitle == <<"U","n","k","n","o","w","n"," ","T","i","t","l","e">>

\* clean_title: the part before the first " by " or ";", stripped
clean_title(raw_title) ==
    IF raw_title = <<>> THEN UnknownTitle
    ELSE LET pts == SplitPoints(raw_title)
             first == IF pts = {} THEN raw_title
                      ELSE SubSeq(raw_title, 1,
                                  (CHOOSE i \in pts : \A k \in pts : i <= k) - 1)
         IN  Strip(first)

\* slugify(text, lowercase=True): lower-case, every run of characters that
\* are not letters or digits becomes one "-", no "-" at either end
RECURSIVE SlugChars(_, _)
SlugChars(s, acc) ==
    IF s = <<>> THEN acc
    ELSE LET c == Head(s)
         IN  IF IsAlnum(c) THEN SlugChars(Tail(s), Append(acc, LowerChar(c)))
             ELSE IF acc = <<>> \/ acc[Len(acc)] = "-"
                  THEN SlugChars(Tail(s), acc)
                  ELSE SlugChars(Tail(s), Append(acc, "-"))

StripDash(s) == IF s # <<>> /\ s[Len(s)] = "-" THEN SubSeq(s, 1, Len(s) - 1) ELSE s

generate_slug(text) == StripDash(SlugChars(text, <<>>))

\* ------------------------------------------------------- the outside world
\* Catalog pages fetch_book_data can come back with (title is the page's h1,
\* author_name the parsed "Author" row, genres the parsed subjects).
TitleEmma == <<"E","m","m","a">>
TitleEmmaBy == <<"E","M","M","A"," ","b","y"," ","J"," ","A">>
TitlePride == <<"P","r","i","d","e">>
TitleDracula == <<"D","r","a","c","u","l","a",";","x">>
NameAusten == <<"J"," ","A","u","s","t","e","n">>
NameAustenDot == <<"j","."," ","a","u","s","t","e","n">>
NameStoker == <<"B"," ","S","t","o","k","e","r">>
GenreFiction == <<"F","i","c","t","i","o","n">>
GenreFictionLc == <<"f","i","c","t","i","o","n">>
GenreHorror == <<"H","o","r","r","o","r">>

PageEmma == [title |-> TitleEmma, author_name |-> NameAusten, genres |-> <<GenreFiction>>]
PageEmmaBy == [title |-> TitleEmmaBy, author_name |-> NameAustenDot,
               genres |-> <<GenreFiction, GenreFictionLc>>]
PagePride == [title |-> TitlePride, author_name |-> NameAusten, genres |-> <<GenreFiction>>]
PageDracula == [title |-> TitleDracula, author_name |-> NameStoker, genres |-> <<>>]
PageEmmaStoker == [title |-> TitleEmma, author_name |-> NameStoker, genres |-> <<>>]

\* the pages the archive can hold for an id
Pages(gutenberg_id) ==
    CASE gutenberg_id = 1 -> {PageEmma}
      [] gutenberg_id = 2 -> {PageEmmaBy, PagePride, PageDracula, PageEmmaStoker}
      [] OTHER -> {PageEmmaStoker}

LowerStr(s) == [k \in 1..Len(s) |-> LowerChar(s[k])]

\* the texts of the genre links on the reading site's page of a title, in
\* document order (none when the search finds no book): the site knows the
\* genres of one book only
ShelfToRead == <<"T","o","-","R","e","a","d">>
GenreLinks(book_title) ==
    IF book_title = clean_title(TitleDracula)
    THEN <<GenreHorror, ShelfToRead, GenreHorror>>
    ELSE <<>>

blacklist ==
    { <<"t","o","-","r","e","a","d">>,
      <<"c","u","r","r","e","n","t","l","y","-","r","e","a","d","i","n","g">>,
      <<"f","a","v","o","r","i","t","e","s">>,
      <<"o","w","n","e","d">>,
      <<"k","i","n","d","l","e">>,
      <<"b","o","o","k","s","-","i","-","o","w","n">> }

GenreCap == 5

\* the loop "if name and name not in genres: genres.append(name)"
RECURSIVE AppendNew(_, _)
AppendNew(names, acc) ==
    IF names = <<>> THEN acc
    ELSE AppendNew(Tail(names),
                   IF Head(names) # <<>> /\ \A k \in 1..Len(acc) : acc[k] # Head(names)
                   THEN Append(acc, Head(names)) ELSE acc)

NotBlacklisted(g) == LowerStr(g) \notin blacklist

\* GoodreadsProvider.fetch_goodreads_genres, applied to the page's genre links
fetch_goodreads_genres(links) ==
    LET kept == SelectSeq(AppendNew(links, <<>>), NotBlacklisted)
    IN  SubSeq(kept, 1, IF Len(kept) < GenreCap THEN Len(kept) ELSE GenreCap)

\* what fetch_social_stats (bibliographic source) and fetch_rating_fallback
\* (social-reading source) can come back with for a title; ratings are in
\* tenths.  One title is rated by the bibliographic source, one only by the
\* fallback, the others by neither.
NoStats == [averageRating |-> 0, numReviews |-> 0]

\* the answers of the bibliographic API to the three queries of
\* fetch_social_stats (strict title and author, fuzzy, title only): whether the
\* request came back with status 200, and the volumes listed (whether a volume
\* carries averageRating, and its averageRating and ratingsCount)
Unrated == [rated |-> FALSE, averageRating |-> 0, ratingsCount |-> 0]
StatsStages(book_title) ==
    IF book_title = TitleEmma
    THEN << [ok |-> TRUE, items |-> <<Unrated>>],
            [ok |-> TRUE, items |-> <<Unrated,
                                      [rated |-> TRUE, averageRating |-> 42,
                                       ratingsCount |-> 12]>>],
            [ok |-> TRUE, items |-> <<[rated |-> TRUE, averageRating |-> 30,
                                       ratingsCount |-> 5]>>] >>
    ELSE << [ok |-> FALSE, items |-> <<>>],
            [ok |-> TRUE, items |-> <<>>],
            [ok |-> TRUE, items |-> <<Unrated>>] >>

\* the volumes of a stage that carry averageRating
RatedItems(stage) ==
    IF stage.ok THEN {k \in 1..Len(stage.items) : stage.items[k].rated} ELSE {}

\* fetch_social_stats: the loop over the queries from query n on; the stats
\* returned and the number of requests made
RECURSIVE StatsWaterfall(_, _)
StatsWaterfall(stages, n) ==
    IF n > Len(stages) THEN [stats |-> NoStats, requests |-> Len(stages)]
    ELSE IF RatedItems(stages[n]) # {}
    THEN LET k == CHOOSE x \in RatedItems(stages[n]) :
                      \A y \in RatedItems(stages[n]) : x <= y
             info == stages[n].items[k]
         IN  [stats |-> [averageRating |-> info.averageRating,
                         numReviews |-> info.ratingsCount],
              requests |-> n]
    ELSE StatsWaterfall(stages, n + 1)

fetch_social_stats(stages) == StatsWaterfall(stages, 1)

FallbackStats(book_title) ==
    IF book_title = clean_title(TitleEmmaBy)
    THEN { [averageRating |-> 40, numReviews |-> 100] }
    ELSE { NoStats }

\* the description the bibliographic source has for a title (found, and its
\* length): one long, one shorter than the minimum, the others none
GoogleDescription(book_title) ==
    IF book_title = TitleEmma THEN [found |-> TRUE, len |-> 250]
    ELSE IF book_title = TitlePride THEN [found |-> TRUE, len |-> 40]
    ELSE [found |-> FALSE, len |-> 0]

\* a document item of an e-book: whether reading it raises, its first h1/h2/h3
\* (found, and its stripped text), the length of its text, and the lengths of
\* the stripped texts of its <p> elements in document order
NoHeading == [found |-> FALSE, text |-> ""]
ItemFront == [ok |-> TRUE, heading |-> NoHeading, text |-> 1400,
              paragraphs |-> <<20, 120>>]
ItemChapterI == [ok |-> TRUE, heading |-> [found |-> TRUE, text |-> "Chapter I"],
                 text |-> 3200, paragraphs |-> <<20, 500, 300>>]
ItemChapterII == [ok |-> TRUE, heading |-> [found |-> TRUE, text |-> "Chapter II"],
                  text |-> 1600, paragraphs |-> <<400>>]
ItemBroken == [ok |-> FALSE, heading |-> NoHeading, text |-> 0, paragraphs |-> <<>>]

\* the downloaded e-book of a title: whether read_epub can open it, and its
\* document items
EpubOf(book_title) ==
    IF book_title = clean_title(TitleDracula)
    THEN [readable |-> FALSE, items |-> <<>>]
    ELSE IF book_title = TitlePride
    THEN [readable |-> TRUE, items |-> <<ItemFront>>]
    ELSE [readable |-> TRUE, items |-> <<ItemFront, ItemChapterI, ItemChapterII>>]

\* the raw dates the three stages of fetch_publication_year get for a title
\* (bibliographic publishedDate, open-catalog first_publish_year, the archive
\* page's Release Date); "" where the stage fails or lacks the field
NoDate == <<>>
YearSources(book_title) ==
    IF book_title = TitleEmma
    THEN << <<"1","8","1","5","-","1","2","-","2","3">>, <<"1","8","1","6">>, NoDate >>
    ELSE IF book_title = TitlePride
    THEN << <<"1","8","1">>, NoDate, <<"J","a","n"," ","1",","," ","1","9","9","8">> >>
    ELSE IF book_title = clean_title(TitleDracula)
    THEN << <<"c","1","8","9","7">>, NoDate, NoDate >>
    ELSE << NoDate, NoDate, NoDate >>

\* a cover URL: the candidate it comes from, and whether is_valid_image was
\* applied to the bytes fetched from it before it was returned
NoCover == [candidate |-> "none", validated |-> FALSE]

\* what the cover sources have for a title: whether the open catalog lists a
\* cover id and its image bytes decode, and whether the bibliographic entry
\* carries an image link
CoverSources(book_title) ==
    IF book_title = TitleEmma
    THEN [cover_i |-> TRUE, decodes |-> TRUE, imageLinks |-> TRUE]
    ELSE IF book_title = TitlePride
    THEN [cover_i |-> TRUE, decodes |-> FALSE, imageLinks |-> TRUE]
    ELSE [cover_i |-> FALSE, decodes |-> FALSE, imageLinks |-> FALSE]

\* the driver's id range, range(start_id, end_id + 1)
IdRange == 1..NumIds

\* ------------------------------------------------------------- environment
\* the configuration values read with os.getenv
MongoVars == {"MONGO_URI"}
S3Vars == {"AWS_ACCESS_KEY_ID", "AWS_SECRET_ACCESS_KEY", "AWS_REGION",
           "AWS_S3_BUCKET_NAME"}
RequiredVars == MongoVars \cup S3Vars

\* the environments a process is started in: complete, the connection string
\* absent, the store not answering, the bucket name absent
Environments ==
    { [vars |-> RequiredVars, ping |-> TRUE],
      [vars |-> RequiredVars \ {"MONGO_URI"}, ping |-> TRUE],
      [vars |-> RequiredVars, ping |-> FALSE],
      [vars |-> RequiredVars \ {"AWS_S3_BUCKET_NAME"}, ping |-> TRUE] }

\* S3Handler.__init__ passes the values on as they are; upload_file can only
\* work with all of them
S3Configured(e) == S3Vars \subseteq e.vars

\* MongoHandler's class attributes in a new process, with the numbers of
\* instances and clients constructed and whether the collections are assigned
FreshClass ==
    [_instance |-> <<"None">>, _client |-> <<"None">>, instances |-> 0, clients |-> 0,
     initialised |-> FALSE]

\* __new__ without the "if cls._instance is None" test
MongoHandlerAlwaysNew(cls, e) ==
    [cls |-> [cls EXCEPT !._instance = <<"MongoHandler", cls.instances + 1>>,
                         !.instances = @ + 1,
                         !._client = <<"MongoClient", cls.clients + 1>>,
                         !.clients = @ + 1,
                         !.initialised = TRUE],
     raised |-> FALSE,
     instance |-> <<"MongoHandler", cls.instances + 1>>]

\* MongoHandler(): __new__, run as a whole under cls._lock; the class
\* attributes afterwards, whether it raised, and the instance returned
MongoHandler(cls, e) ==
    IF cls._instance # <<"None">>
    THEN [cls |-> cls, raised |-> FALSE, instance |-> cls._instance]
    ELSE LET made == [cls EXCEPT !._instance = <<"MongoHandler", cls.instances + 1>>,
                                 !.instances = @ + 1]
         IN  IF "MONGO_URI" \notin e.vars
             THEN [cls |-> made, raised |-> TRUE, instance |-> <<"None">>]
             ELSE IF ~e.ping
             THEN [cls |-> [made EXCEPT !.clients = @ + 1], raised |-> TRUE,
                   instance |-> <<"None">>]
             ELSE [cls |-> [made EXCEPT !._client = <<"MongoClient", cls.clients + 1>>,
                                        !.clients = @ + 1,
                                        !.initialised = TRUE],
                   raised |-> FALSE,
                   instance |-> made._instance]

\* ------------------------------------------------------------------- state
VARIABLES
    processedFile,  \* data/processed_successfully.txt: the lines appended so far
    driver,         \* the __main__ block: its position, the ids it submitted, and
                    \* how often it was started and how many calls the pool began
    task,           \* per id: the run_ingestion call in progress and its locals
    tempFiles,      \* the ids whose folder data/temp/<id> exists
    authors,        \* db.authors
    genres,         \* db.genres
    books,          \* db.books
    reviews,        \* db.reviews
    users,          \* db.users
    actions,        \* db.actions
    linked,         \* history: the <<author id, book id>> pairs given to link_book_to_author
    upserted,       \* history: the <<collection, slug>> pairs of the upserts that returned
    env,            \* the process environment (.env): the variables set, and
                    \* whether the store answers the ping
    mongoHandler    \* the class attributes of MongoHandler in the driver's process

vars == <<processedFile, driver, task, tempFiles, authors, genres, books,
          reviews, users, actions, linked, upserted, env, mongoHandler>>

process == <<env, mongoHandler>>

store == <<authors, genres, books, reviews, users, actions, linked, upserted>>

None == <<"None">>

\* dates as stored: None, datetime.now(timezone.utc), datetime(year, 1, 1)
NullDate == [type |-> "null", year |-> 0, month |-> 0, day |-> 0]
Now == [type |-> "now", year |-> 0, month |-> 0, day |-> 0]

\* the locals of a run_ingestion call that has not started, and what the model
\* remembers of the call: how it ended (result), the call that raised (err),
\* the attempts of the download that raised, the store operations and uploads
\* that completed (ops), those that met a store error (storeErrors), whether
\* the call appended its id to the completed-ids file, and how many snippets
\* fetch_reviews gave it and how many Review documents it inserted.
\* resolved names the enrichment resolutions the call has made so far.
IdleTask ==
    [pc |-> "idle", title |-> None, author_name |-> None, genres |-> <<>>,
     real_genres |-> <<>>, author_id |-> None, genre_ids |-> <<>>,
     book_id |-> None, stats |-> NoStats, gr_reviews |-> 0,
     snippets |-> 0, inserted |-> 0,
     description |-> 0, editorPick |-> FALSE, resolved |-> {},
     chapters |-> <<>>, page_count |-> 0,
     pub_year |-> None, year_requests |-> 0, stats_requests |-> 0, mongo |-> None, modern_cover_url |-> NoCover,
     result |-> "none", err |-> "none", attempts |-> 0,
     ops |-> {}, storeErrors |-> {}, appended |-> FALSE]

Init ==
    /\ env \in Environments
    /\ mongoHandler = FreshClass
    /\ processedFile = <<>>
    /\ driver = [pc |-> "off", runs |-> 0, started |-> 0, gutenberg_ids |-> {}]
    /\ task = [i \in IdRange |-> IdleTask]
    /\ tempFiles = {}
    /\ authors = {}
    /\ genres = {}
    /\ books = {}
    /\ reviews = {}
    /\ users = {}
    /\ actions = {}
    /\ linked = {}
    /\ upserted = {}

Range(f) == {f[i] : i \in DOMAIN f}

\* ------------------------------------------------------------------ driver
\* the __main__ block reading the completed-ids file without its first line
RemainingIdsSkippingFirstLine(file) ==
    {i \in IdRange : i \notin Range(SubSeq(file, 2, Len(file)))}

\* processed_ids / gutenberg_ids of the __main__ block
RemainingIds(file) == {i \in IdRange : i \notin Range(file)}

\* __main__: read the completed-ids file, keep the ids of the range not in it,
\* exit when none is left, else submit every one of them to the pool
DriverStart ==
    /\ driver.pc = "off"
    /\ driver.runs < MaxDriverRuns
    /\ driver.started + Cardinality(RemainingIds(processedFile)) <= MaxRuns
    /\ LET ids == RemainingIds(processedFile)
           db_handler == MongoHandler(FreshClass, env)
       IN  IF ids = {}
           THEN \* sys.exit()
                /\ driver' = [driver EXCEPT !.runs = @ + 1]
                /\ task' = task
                /\ mongoHandler' = FreshClass
           ELSE IF db_handler.raised
           THEN \* the warm-up raises in the main thread: the process ends
                /\ driver' = [driver EXCEPT !.runs = @ + 1]
                /\ task' = task
                /\ mongoHandler' = db_handler.cls
           ELSE /\ driver' = [driver EXCEPT !.pc = "pool", !.runs = @ + 1,
                                             !.gutenberg_ids = ids]
                /\ task' = [i \in IdRange |->
                              IF i \in ids THEN [IdleTask EXCEPT !.pc = "queued"]
                              ELSE IdleTask]
                /\ mongoHandler' = db_handler.cls
    /\ UNCHANGED <<processedFile, tempFiles, store, env>>

Running(i) == task[i].pc \notin {"idle", "queued", "done"}

\* datetime.utcnow(): the model's clock advances from one driver run to the next
utcnow == driver.runs

\* a pool without the limit on its threads
FreeWorkerUnbounded(running) == TRUE

\* ThreadPoolExecutor(max_workers=MAX_WORKERS): a queued call is taken when
\* fewer than MAX_WORKERS calls are in progress
FreeWorker(running) == Cardinality(running) < MAX_WORKERS

\* a pool thread takes the oldest queued call (the executor's queue is FIFO,
\* at most MAX_WORKERS threads) and enters run_ingestion
WorkerStart(i) ==
    /\ driver.pc = "pool"
    /\ task[i].pc = "queued"
    /\ \A j \in IdRange : task[j].pc = "queued" => i <= j
    /\ FreeWorker({j \in IdRange : Running(j)})
    /\ LET mongo == MongoHandler(mongoHandler, env)
       IN  /\ mongoHandler' = mongo.cls
           /\ task' = IF mongo.raised
                      THEN [task EXCEPT ![i] = [IdleTask EXCEPT !.pc = "done",
                                                                !.result = "failed",
                                                                !.err = "MongoHandler"]]
                      ELSE [task EXCEPT ![i].pc = "extract",
                                        ![i].mongo = mongo.instance]
    /\ driver' = [driver EXCEPT !.started = @ + 1]
    /\ UNCHANGED <<processedFile, tempFiles, store, env>>

\* the with-block ends when every submitted future has completed
DriverFinish ==
    /\ driver.pc = "pool"
    /\ \A i \in driver.gutenberg_ids : task[i].pc = "done"
    /\ driver' = [driver EXCEPT !.pc = "off", !.gutenberg_ids = {}]
    /\ task' = [i \in IdRange |-> IdleTask]
    /\ UNCHANGED <<processedFile, tempFiles, store, process>>

\* ------------------------------------------------------------ store (Mongo)
\* find_one_and_update({"slug": slug}, {"$set": set, "$setOnInsert": onInsert},
\* upsert=True, return_document=True) on collection coll whose ids carry tag:
\* the matching document with the fields of set overwritten, or a new document
\* made of set and onInsert.  Gives the collection afterwards and the _id.
FindOneAndUpdate(coll, tag, slug, set, onInsert) ==
    LET found == {d \in coll : d.slug = slug}
    IN  IF found # {}
        THEN LET d == CHOOSE x \in found : \A y \in found : x.id[2] <= y.id[2]
             IN  [coll |-> (coll \ {d}) \cup {set @@ d}, id |-> d.id]
        ELSE LET oid == <<tag, Cardinality(coll) + 1>>
             IN  [coll |-> coll \cup {set @@ onInsert @@ [id |-> oid]}, id |-> oid]

\* update_one({"_id": oid}, {"$set": set}): no document matched, no change
UpdateOneSet(coll, oid, set) ==
    {IF d.id = oid THEN set @@ d ELSE d : d \in coll}

\* {"$set": {field: [x]}} in place of $addToSet: the list is replaced
AddToSetReplacing(list, x) == <<x>>

\* {"$addToSet": {field: x}} on a list
AddToSet(list, x) == IF x \in Range(list) THEN list ELSE Append(list, x)

\* Transformer.prepare_author_payload
prepare_author_payload(name) ==
    [name |-> name, slug |-> generate_slug(name), books |-> <<>>]

\* upsert_author without the pop: the payload's empty books list goes to $set
AuthorSetFieldsWithBooks(author_data) == author_data

\* upsert_author: author_data.pop('books', None), the fields left go to $set
AuthorSetFields(author_data) ==
    [f \in DOMAIN author_data \ {"books"} |-> author_data[f]]

\* upsert_author: the $setOnInsert part
AuthorOnInsert(now) == [createdAt |-> now, books |-> <<>>]

upsert_author(coll, author_data, now) ==
    FindOneAndUpdate(coll, "author", author_data.slug,
                     AuthorSetFields(author_data), AuthorOnInsert(now))

\* Transformer.prepare_genre_payload
prepare_genre_payload(genre_name) ==
    [name |-> genre_name, genre |-> genre_name, slug |-> generate_slug(genre_name)]

\* upsert_genre keyed on the display name instead of the slug
upsert_genre_by_name(coll, genre_payload, now) ==
    LET found == {d \in coll : d.name = genre_payload.genre}
        oid == <<"genre", Cardinality(coll) + 1>>
    IN  IF found # {}
        THEN [coll |-> coll, id |-> (CHOOSE d \in found : TRUE).id]
        ELSE [coll |-> coll \cup {genre_payload @@ [createdAt |-> now, id |-> oid]},
              id |-> oid]

upsert_genre(coll, genre_payload, now) ==
    LET genre_name == genre_payload.genre
        slug == IF genre_payload.slug # <<>> THEN genre_payload.slug
                ELSE generate_slug(genre_name)
    IN  FindOneAndUpdate(coll, "genre", slug,
                         [genre_payload EXCEPT !.name = genre_name],
                         [createdAt |-> now])

\* the length of 'No description available.'
NoDescriptionAvailable == 25

\* prepare_book_payload with genre references that no upsert returned
prepare_book_payload_unresolved(raw_data, author_id, genre_ids) ==
    [title |-> raw_data.title, slug |-> generate_slug(raw_data.title),
     description |-> raw_data.description,
     author |-> author_id, editorPick |-> raw_data.editorPick,
     genre |-> [k \in 1..Len(genre_ids) |-> <<"genre", 0>>],
     pageCount |-> raw_data.pageCount, chapters |-> raw_data.chapters,
     publicationDate |-> NullDate,
     averageRating |-> 0, numReviews |-> 0]

\* Transformer.prepare_book_payload (raw_data carries no averageRating or
\* numReviews, so both are 0)
prepare_book_payload(raw_data, author_id, genre_ids) ==
    [title |-> raw_data.title, slug |-> generate_slug(raw_data.title),
     description |-> IF "description" \in DOMAIN raw_data THEN raw_data.description
                     ELSE NoDescriptionAvailable,
     author |-> author_id,
     editorPick |-> IF "editorPick" \in DOMAIN raw_data THEN raw_data.editorPick
                    ELSE FALSE,
     genre |-> genre_ids,
     pageCount |-> IF "pageCount" \in DOMAIN raw_data THEN raw_data.pageCount ELSE 0,
     chapters |-> IF "chapters" \in DOMAIN raw_data THEN raw_data.chapters ELSE <<>>,
     publicationDate |-> NullDate,
     averageRating |-> 0, numReviews |-> 0]

\* insert_book without the pop: editorPick goes to $set with the other fields
BookSetFieldsWithPick(book_data) == book_data

\* insert_book: book_data.pop('editorPick'), the fields left go to $set
BookSetFields(book_data) ==
    [f \in DOMAIN book_data \ {"editorPick"} |-> book_data[f]]

\* insert_book: the $setOnInsert part
BookOnInsert(book_data, now) ==
    [editorPick |-> book_data.editorPick, createdAt |-> now]

\* insert_book as a plain insert: a second document for a slug already there
insert_book_plain(coll, book_data, now) ==
    LET oid == <<"book", Cardinality(coll) + 1>>
    IN  [coll |-> coll \cup {BookSetFields(book_data) @@ BookOnInsert(book_data, now)
                               @@ [id |-> oid]},
         id |-> oid]

insert_book(coll, book_data, now) ==
    FindOneAndUpdate(coll, "book", book_data.slug,
                     BookSetFields(book_data), BookOnInsert(book_data, now))

\* link_book_to_author with $push in place of $addToSet
link_book_to_author_push(coll, author_id, book_id) ==
    {IF a.id = author_id THEN [a EXCEPT !.books = Append(@, book_id)] ELSE a
       : a \in coll}

\* link_book_to_author
link_book_to_author(coll, author_id, book_id) ==
    {IF a.id = author_id THEN [a EXCEPT !.books = AddToSet(@, book_id)] ELSE a
       : a \in coll}

\* update_book_social_stats
update_book_social_stats(coll, book_id, stats) ==
    UpdateOneSet(coll, book_id,
                 [averageRating |-> stats.averageRating, numReviews |-> stats.numReviews])

\* get_or_create_system_user: keyed on the e-mail address
SystemUser == [id |-> <<"user", 1>>, email |-> "system@parable.app"]
get_or_create_system_user(coll) ==
    IF \E u \in coll : u.email = SystemUser.email THEN coll ELSE coll \cup {SystemUser}

\* db.collection.insert_one(doc)
InsertOne(coll, tag, doc) == coll \cup {doc @@ [id |-> <<tag, Cardinality(coll) + 1>>]}

\* insert_review as an upsert keyed on the book: one Review per book
insert_review_upsert(coll, review_doc) ==
    IF \E r \in coll : r.book = review_doc.book THEN coll
    ELSE InsertOne(coll, "review", review_doc)

\* insert_review: createdAt, updatedAt and __v are added, then insert_one
insert_review(coll, review_doc) == InsertOne(coll, "review", review_doc)

\* ---------------------------------------------------------- publication year
IsWordChar(c) == IsAlnum(c) \/ c = "_"

\* positions where \b(\d{4})\b matches in date_str
YearMatches(date_str) ==
    {k \in 1..(Len(date_str) - 3) :
        /\ \A d \in 0..3 : date_str[k + d] \in Digits
        /\ (k = 1 \/ ~IsWordChar(date_str[k - 1]))
        /\ (k + 4 > Len(date_str) \/ ~IsWordChar(date_str[k + 4]))}

\* GoogleBooksProvider._clean_year
_clean_year(date_str) ==
    IF date_str = <<>> THEN None
    ELSE LET m == YearMatches(date_str)
         IN  IF m = {} THEN None
             ELSE LET k == CHOOSE x \in m : \A y \in m : x <= y
                  IN  SubSeq(date_str, k, k + 3)

\* fetch_publication_year asking every source and keeping the last year found
YearWaterfallLast(stages, n) ==
    LET found == {k \in n..Len(stages) : _clean_year(stages[k]) # None}
    IN  [year |-> IF found = {} THEN None
                  ELSE _clean_year(stages[CHOOSE k \in found : \A l \in found : l <= k]),
         requests |-> Len(stages)]

\* fetch_publication_year from stage n on: the year of the first stage whose
\* date holds one, and the number of sources asked
RECURSIVE YearWaterfall(_, _)
YearWaterfall(stages, n) ==
    IF n > Len(stages) THEN [year |-> None, requests |-> Len(stages)]
    ELSE IF _clean_year(stages[n]) # None
    THEN [year |-> _clean_year(stages[n]), requests |-> n]
    ELSE YearWaterfall(stages, n + 1)

fetch_publication_year(stages) == YearWaterfall(stages, 1).year

DigitSeq == <<"0","1","2","3","4","5","6","7","8","9">>

\* int(pub_year)
RECURSIVE ToInt(_)
ToInt(digits) ==
    IF digits = <<>> THEN 0
    ELSE 10 * ToInt(SubSeq(digits, 1, Len(digits) - 1))
         + (CHOOSE n \in 0..9 : DigitSeq[n + 1] = digits[Len(digits)])

\* run_ingestion's final_pub_date: the current date unless pub_year is a year
\* datetime() accepts (from MINYEAR = 1 on)
final_pub_date(pub_year) ==
    IF pub_year # None /\ ToInt(pub_year) >= 1
    THEN [type |-> "datetime", year |-> ToInt(pub_year), month |-> 1, day |-> 1]
    ELSE Now

\* the loop without the return in the try block: it always runs to the end
DownloadLoopNoStop(outs, attempt) ==
    [ok |-> \E k \in (attempt + 1)..max_retries : outs[k], attempts |-> max_retries]

\* ---------------------------------------------------------- engagement seeding
\* seed_social_proof: numReviews, or this when it is 0
DefaultBaseCount == 10
\* random.randint(1, 10) and random.randint(10, 50)
LikesJitter == 1..10
ReadsJitter == 10..50
\* the pairs of draws followed: both lowest, both highest
JitterDraws == {<<1, 10>>, <<10, 50>>}

\* the counters without the scaling of the review count
SeedCountersUnscaled(social_stats, likes_jitter, reads_jitter) ==
    [likesCount |-> social_stats.numReviews + likes_jitter,
     readsCount |-> social_stats.numReviews + reads_jitter,
     trendingScore |-> social_stats.numReviews]

\* seed_social_proof: the $set of likesCount, readsCount and trendingScore
SeedCounters(social_stats, likes_jitter, reads_jitter) ==
    LET base_count == IF social_stats.numReviews = 0 THEN DefaultBaseCount
                      ELSE social_stats.numReviews
        simulated_likes == ((base_count * 3) \div 2) + likes_jitter
        simulated_reads == (base_count * 5) + reads_jitter
    IN  [likesCount |-> simulated_likes,
         readsCount |-> simulated_reads,
         trendingScore |-> (simulated_likes * 3) + simulated_reads]

\* ------------------------------------------------------------ asset pipeline
\* download_asset's retry loop over the outcomes of its attempts
\* (outs[k] is whether attempt k gets and stores the bytes): the number of
\* attempts made and whether a path is returned (else the last error is raised)
RECURSIVE DownloadLoop(_, _)
DownloadLoop(outs, attempt) ==
    IF outs[attempt + 1] THEN [ok |-> TRUE, attempts |-> attempt + 1]
    ELSE IF attempt < max_retries - 1 THEN DownloadLoop(outs, attempt + 1)
    ELSE [ok |-> FALSE, attempts |-> attempt + 1]

\* download_asset with range(max_retries - 1): it gives up one attempt early
download_asset_short(outs) ==
    LET r == DownloadLoop(outs, 0)
    IN  IF r.attempts < max_retries THEN r
        ELSE [ok |-> FALSE, attempts |-> max_retries - 1]

download_asset(outs) == DownloadLoop(outs, 0)

AttemptOutcomes == [1..max_retries -> BOOLEAN]

\* the excerpt of one item: its first paragraph longer than MinParagraphLen,
\* cut at ExcerptLen and followed by "..." (0 for "")
ItemExcerpt(item) ==
    LET long == {k \in 1..Len(item.paragraphs) : item.paragraphs[k] > MinParagraphLen}
    IN  IF long = {} THEN 0
        ELSE LET txt == item.paragraphs[CHOOSE k \in long : \A l \in long : k <= l]
             IN  (IF txt > ExcerptLen THEN ExcerptLen ELSE txt) + EllipsisLen

\* the loop of parse_epub_details over the items from item n on
RECURSIVE ParseItems(_, _, _)
ParseItems(items, n, acc) ==
    IF n > Len(items) THEN acc
    ELSE LET item == items[n]
         IN  ParseItems(items, n + 1,
                [chapters |-> IF item.heading.found
                              THEN Append(acc.chapters, [title |-> item.heading.text])
                              ELSE acc.chapters,
                 page_count |-> acc.page_count + (item.text \div CharsPerPage),
                 first_paragraph |-> IF acc.first_paragraph = 0 THEN ItemExcerpt(item)
                                     ELSE acc.first_paragraph])

\* whether the try block of parse_epub_details runs to its return
Parseable(epub) ==
    epub.readable /\ \A n \in 1..Len(epub.items) : epub.items[n].ok

FullBook == [chapters |-> <<[title |-> "Full Book"]>>, page_count |-> 0,
             first_paragraph |-> 0]

\* parse_epub_details returning what its loop collected, without the
\* "or [Main Content]" and the max(page_count, 1)
parse_epub_details_raw(epub) ==
    IF ~Parseable(epub) THEN FullBook
    ELSE ParseItems(epub.items, 1,
                    [chapters |-> <<>>, page_count |-> 0, first_paragraph |-> 0])

\* parse_epub_details: chapters, page count and excerpt (first_paragraph, as
\* its length)
parse_epub_details(epub) ==
    IF ~Parseable(epub) THEN FullBook
    ELSE LET r == ParseItems(epub.items, 1,
                             [chapters |-> <<>>, page_count |-> 0, first_paragraph |-> 0])
         IN  [chapters |-> IF r.chapters = <<>> THEN <<[title |-> "Main Content"]>>
                           ELSE r.chapters,
              page_count |-> IF r.page_count > 1 THEN r.page_count ELSE 1,
              first_paragraph |-> r.first_paragraph]

\* run_ingestion's description: google_desc or the catalog's (always ""), and
\* the excerpt when that is missing or shorter than MinDescriptionLen
ResolveDescription(google_desc, first_paragraph) ==
    LET final_description == IF google_desc.found THEN google_desc.len ELSE 0
    IN  IF final_description = 0 \/ final_description < MinDescriptionLen
        THEN first_paragraph
        ELSE final_description

\* GoodreadsProvider.get_modern_cover_url: A. the open catalog cover, returned
\* if is_valid_image accepts its bytes; B. the bibliographic image link,
\* returned as it is; C. the archive's cached cover, returned as it is
get_modern_cover_url(src) ==
    IF src.cover_i /\ src.decodes
    THEN [candidate |-> "openlibrary", validated |-> TRUE]
    ELSE IF src.imageLinks
    THEN [candidate |-> "google_books", validated |-> FALSE]
    ELSE [candidate |-> "gutenberg", validated |-> FALSE]

\* the titles the catalog pages give and, per title, what the adapters make of
\* the sources' answers
CatalogTitles == {clean_title(p.title) : p \in UNION {Pages(i) : i \in IdRange}}
PublicationYearOf == [t \in CatalogTitles |-> fetch_publication_year(YearSources(t))]
YearRequestsOf == [t \in CatalogTitles |-> YearWaterfall(YearSources(t), 1).requests]
GoodreadsGenresOf == [t \in CatalogTitles |-> fetch_goodreads_genres(GenreLinks(t))]
ParsedEpubOf == [t \in CatalogTitles |-> parse_epub_details(EpubOf(t))]
ModernCoverOf == [t \in CatalogTitles |-> get_modern_cover_url(CoverSources(t))]
SocialStatsOf == [t \in CatalogTitles |-> fetch_social_stats(StatsStages(t))]

\* what fetch_social_stats comes back with for a title
GoogleStats(book_title) == { SocialStatsOf[book_title].stats }

\* what fetch_goodreads_genres can come back with for a title
GoodreadsGenres(book_title) == { GoodreadsGenresOf[book_title] }

\* cleanup_temp removing data/temp as a whole
cleanup_temp_all(files, gutenberg_id) == {}

\* cleanup_temp: shutil.rmtree of data/temp/<id>
cleanup_temp(files, gutenberg_id) == files \ {gutenberg_id}

\* ------------------------------------------------------------- editor pick
\* Python's "x in s" on strings
Contains(s, x) ==
    \E k \in 0..(Len(s) - Len(x)) : SubSeq(s, k + 1, k + Len(x)) = x

ClassicTerms ==
    { <<"g","a","t","s","b","y">>, <<"d","r","a","c","u","l","a">>,
      <<"p","r","i","d","e">>,
      <<"w","a","r"," ","a","n","d"," ","p","e","a","c","e">> }

\* the rating threshold 4.2, in tenths
PickRating == 42

\* the editor pick for ratings above 4.2 only
EditorPickAbove(stats, book_title) ==
    \/ stats.averageRating > PickRating
    \/ \E x \in ClassicTerms : Contains(LowerStr(book_title), x)

EditorPick(stats, book_title) ==
    \/ stats.averageRating >= PickRating
    \/ \E x \in ClassicTerms : Contains(LowerStr(book_title), x)

\* stats after the fallback rule of run_ingestion
ResolveStats(google, fallback) ==
    IF google.averageRating = 0 THEN fallback ELSE google

\* ------------------------------------------------------------ run_ingestion
\* an exception that is not caught in the call: the call never returns
RaiseHalting(i, cause) ==
    [task EXCEPT ![i].pc = "raised", ![i].result = "failed", ![i].err = cause]

\* an exception reaches "except Exception": the run goes to its finally block
Raise(i, cause) ==
    [task EXCEPT ![i] = [IdleTask EXCEPT !.pc = "cleanup", !.result = "failed",
                                         !.err = cause,
                                         !.ops = task[i].ops,
                                         !.storeErrors = task[i].storeErrors]]

\* a store operation raised inside the run
RaiseStore(i, op) ==
    [Raise(i, op) EXCEPT ![i].storeErrors = @ \cup {op}]

\* Extract recording an id without catalog entry as complete
ExtractMarkingAbsent(i) ==
    /\ task[i].pc = "extract"
    /\ \/ /\ \E p \in Pages(i) :
                task' = [task EXCEPT ![i].pc = "download_epub",
                                     ![i].title = clean_title(p.title),
                                     ![i].author_name = p.author_name,
                                     ![i].genres = p.genres,
                                     ![i].pub_year =
                                        PublicationYearOf[clean_title(p.title)],
                                     ![i].modern_cover_url =
                                        ModernCoverOf[clean_title(p.title)],
                                    ![i].year_requests =
                                        YearRequestsOf[clean_title(p.title)],
                                     ![i].resolved = {"modern_cover", "publication_year"}]
          /\ processedFile' = processedFile
       \/ /\ task' = [task EXCEPT ![i] = [IdleTask EXCEPT !.pc = "cleanup",
                                                          !.result = "absent",
                                                          !.ops = task[i].ops]]
          /\ processedFile' = Append(processedFile, i)
       \/ /\ task' = Raise(i, "fetch_book_data")
          /\ processedFile' = processedFile
    /\ UNCHANGED <<process, driver, tempFiles, store>>

\* PHASE 1: fetch_book_data and clean_title; then get_modern_cover_url and
\* fetch_publication_year, whose errors are swallowed inside the adapters
Extract(i) ==
    /\ task[i].pc = "extract"
    /\ \/ \E p \in Pages(i) :
            task' = [task EXCEPT ![i].pc = "download_epub",
                                 ![i].title = clean_title(p.title),
                                 ![i].author_name = p.author_name,
                                 ![i].genres = p.genres,
                                 ![i].pub_year =
                                    PublicationYearOf[clean_title(p.title)],
                                 ![i].modern_cover_url =
                                    ModernCoverOf[clean_title(p.title)],
                                ![i].year_requests =
                                    YearRequestsOf[clean_title(p.title)],
                                 ![i].resolved = {"modern_cover", "publication_year"}]
       \/ \* non-200 page: fetch_book_data gives None, run_ingestion returns
          task' = [task EXCEPT ![i] = [IdleTask EXCEPT !.pc = "cleanup",
                                                       !.result = "absent",
                                                       !.ops = task[i].ops]]
       \/ \* requests.get raises (no connection)
          task' = Raise(i, "fetch_book_data")
    /\ UNCHANGED <<process, processedFile, driver, tempFiles, store>>

\* PHASE 2: download_asset of the e-book into data/temp/<id>/epubs
DownloadEpub(i) ==
    /\ task[i].pc = "download_epub"
    /\ tempFiles' = tempFiles \cup {i}
    /\ \E outs \in AttemptOutcomes :
          LET r == download_asset(outs)
          IN  task' = IF r.ok THEN [task EXCEPT ![i].pc = "download_cover"]
                      ELSE [Raise(i, "download_epub") EXCEPT ![i].attempts = r.attempts]
    /\ UNCHANGED <<process, processedFile, driver, store>>

\* PHASE 2: download_asset of the cover into data/temp/<id>/covers, then
\* parse_epub_details and the description (local to the run)
DownloadCover(i) ==
    /\ task[i].pc = "download_cover"
    /\ tempFiles' = tempFiles \cup {i}
    /\ \E outs \in AttemptOutcomes :
          LET r == download_asset(outs)
          IN  task' = IF r.ok
                      THEN LET parsed == ParsedEpubOf[task[i].title]
                           IN  [task EXCEPT
                                  ![i].pc = "upsert_author",
                                  ![i].chapters = parsed.chapters,
                                  ![i].page_count = parsed.page_count,
                                  ![i].description =
                                      ResolveDescription(GoogleDescription(task[i].title),
                                                         parsed.first_paragraph)]
                      ELSE [Raise(i, "download_cover") EXCEPT ![i].attempts = r.attempts]
    /\ UNCHANGED <<process, processedFile, driver, store>>

\* PHASE 3: fetch_author_extra_details, the profile picture (its download and
\* upload errors are swallowed), prepare_author_payload and upsert_author
UpsertAuthor(i) ==
    /\ task[i].pc = "upsert_author"
    /\ \E pic \in BOOLEAN :
          tempFiles' = IF pic THEN tempFiles \cup {i} ELSE tempFiles
    /\ \/ /\ task' = RaiseStore(i, "upsert_author")
          /\ UNCHANGED <<authors, upserted>>
       \/ LET r == upsert_author(authors, prepare_author_payload(task[i].author_name), utcnow)
          IN  /\ authors' = r.coll
              /\ upserted' = upserted \cup {<<"authors", generate_slug(task[i].author_name)>>}
              /\ task' = [task EXCEPT ![i].pc = "fetch_genres",
                                      ![i].author_id = r.id,
                                      ![i].ops = @ \cup {"upsert_author"}]
    /\ UNCHANGED <<process, processedFile, driver, genres, books, reviews, users, actions,
                   linked>>

\* PHASE 3: fetch_goodreads_genres, else the catalog subjects
FetchGenres(i) ==
    /\ task[i].pc = "fetch_genres"
    /\ \E g \in GoodreadsGenres(task[i].title) :
          LET real_genres == IF g = <<>> THEN task[i].genres ELSE g
          IN  task' = [task EXCEPT ![i].real_genres = real_genres,
                                   ![i].resolved = @ \cup {"genre_list"},
                                   ![i].genre_ids = <<>>,
                                   ![i].pc = IF real_genres = <<>> THEN "upload"
                                             ELSE "upsert_genre"]
    /\ UNCHANGED <<process, processedFile, driver, tempFiles, store>>

\* PHASE 3: one turn of the genre loop: prepare_genre_payload and upsert_genre
UpsertGenre(i) ==
    /\ task[i].pc = "upsert_genre"
    /\ \/ /\ task' = RaiseStore(i, "upsert_genre")
          /\ UNCHANGED <<genres, upserted>>
       \/ LET g_name == task[i].real_genres[Len(task[i].genre_ids) + 1]
              r == upsert_genre(genres, prepare_genre_payload(g_name), utcnow)
              ids == Append(task[i].genre_ids, r.id)
          IN  /\ genres' = r.coll
              /\ upserted' = upserted \cup {<<"genres", generate_slug(g_name)>>}
              /\ task' = [task EXCEPT ![i].genre_ids = ids,
                                      ![i].ops = @ \cup {"upsert_genre"},
                                      ![i].pc = IF Len(ids) = Len(task[i].real_genres)
                                                THEN "upload" ELSE "upsert_genre"]
    /\ UNCHANGED <<process, processedFile, driver, tempFiles, authors, books, reviews, users,
                   actions, linked>>

\* PHASE 4: s3.upload_file of the e-book and of the cover
Upload(i) ==
    /\ task[i].pc = "upload"
    /\ \/ /\ S3Configured(env)
          /\ task' = [task EXCEPT ![i].pc = "insert_book",
                                  ![i].ops = @ \cup {"upload_file"}]
       \/ task' = Raise(i, "upload_file")
    /\ UNCHANGED <<process, processedFile, driver, tempFiles, store>>

\* PHASE 6 and 5: fetch_social_stats, the rating fallback, the editor pick,
\* fetch_isbn, prepare_book_payload and insert_book
InsertBook(i) ==
    /\ task[i].pc = "insert_book"
    /\ \/ /\ task' = RaiseStore(i, "insert_book")
          /\ UNCHANGED <<books, upserted>>
       \/ \E google \in GoogleStats(task[i].title), fallback \in FallbackStats(task[i].title) :
            LET stats == ResolveStats(google, fallback)
                raw_data == [title |-> task[i].title,
                             description |-> task[i].description,
                             chapters |-> task[i].chapters,
                             pageCount |-> task[i].page_count,
                             editorPick |-> EditorPick(stats, task[i].title)]
                book_payload == prepare_book_payload(raw_data, task[i].author_id,
                                                     task[i].genre_ids)
                payload == [book_payload EXCEPT
                              !.publicationDate = final_pub_date(task[i].pub_year)]
                r == insert_book(books, payload, utcnow)
            IN  /\ books' = r.coll
                /\ upserted' = upserted \cup {<<"books", generate_slug(task[i].title)>>}
                /\ task' = [task EXCEPT ![i].pc = "link",
                                        ![i].stats = stats,
                                        ![i].stats_requests =
                                            SocialStatsOf[task[i].title].requests,
                                        ![i].editorPick = raw_data.editorPick,
                                        ![i].resolved = @ \cup {"isbn"},
                                        ![i].book_id = r.id,
                                        ![i].ops = @ \cup {"insert_book"}]
    /\ UNCHANGED <<process, processedFile, driver, tempFiles, authors, genres, reviews, users,
                   actions, linked>>

\* mongo.link_book_to_author(author_id, book_id)
Link(i) ==
    /\ task[i].pc = "link"
    /\ \/ /\ authors' = link_book_to_author(authors, task[i].author_id, task[i].book_id)
          /\ linked' = linked \cup {<<task[i].author_id, task[i].book_id>>}
          /\ task' = [task EXCEPT ![i].pc = "update_stats",
                                  ![i].ops = @ \cup {"link_book_to_author"}]
       \/ /\ task' = RaiseStore(i, "link_book_to_author")
          /\ UNCHANGED <<authors, linked>>
    /\ UNCHANGED <<process, processedFile, driver, tempFiles, genres, books, reviews, users,
                   actions, upserted>>

\* mongo.update_book_social_stats(book_id, stats)
UpdateStats(i) ==
    /\ task[i].pc = "update_stats"
    /\ \/ /\ books' = update_book_social_stats(books, task[i].book_id, task[i].stats)
          /\ task' = [task EXCEPT ![i].pc = "seed",
                                  ![i].ops = @ \cup {"update_book_social_stats"}]
       \/ /\ task' = RaiseStore(i, "update_book_social_stats")
          /\ books' = books
    /\ UNCHANGED <<process, processedFile, driver, tempFiles, authors, genres, reviews, users,
                   actions, linked, upserted>>

\* mongo.seed_social_proof(book_id, stats): the system user, one like action
\* and the Book's engagement counters (the reading-progress record is not
\* carried)
Seed(i) ==
    /\ task[i].pc = "seed"
    /\ \/ /\ task' = RaiseStore(i, "seed_social_proof")
          /\ UNCHANGED <<users, actions, books>>
       \/ \E jitter \in JitterDraws :
            /\ users' = get_or_create_system_user(users)
            /\ actions' = InsertOne(actions, "action",
                                    [target |-> task[i].book_id, action |-> "like"])
            /\ books' = UpdateOneSet(books, task[i].book_id,
                                     SeedCounters(task[i].stats, jitter[1], jitter[2]))
            /\ task' = [task EXCEPT ![i].pc = "fetch_reviews",
                                    ![i].ops = @ \cup {"seed_social_proof"}]
    /\ UNCHANGED <<process, processedFile, driver, tempFiles, authors, genres, reviews,
                   linked, upserted>>

\* fetch_reviews (its errors give no snippets) and get_or_create_system_user
FetchReviews(i) ==
    /\ task[i].pc = "fetch_reviews"
    /\ \/ \E n \in 0..MaxSnippets :
            /\ users' = get_or_create_system_user(users)
            /\ task' = [task EXCEPT ![i].gr_reviews = n,
                                    ![i].snippets = n,
                                    ![i].ops = @ \cup {"get_or_create_system_user"},
                                    ![i].pc = IF n = 0 THEN "mark_complete"
                                              ELSE "insert_review"]
       \/ /\ task' = RaiseStore(i, "get_or_create_system_user")
          /\ users' = users
    /\ UNCHANGED <<process, processedFile, driver, tempFiles, authors, genres, books, reviews,
                   actions, linked, upserted>>

\* one turn of the review loop: insert_review logs a store error and returns
InsertReview(i) ==
    /\ task[i].pc = "insert_review"
    /\ LET left == task[i].gr_reviews - 1
           next == [task EXCEPT ![i].gr_reviews = left,
                                ![i].pc = IF left = 0 THEN "mark_complete"
                                          ELSE "insert_review"]
       IN  \/ /\ reviews' = insert_review(reviews,
                                          [book |-> task[i].book_id,
                                           rating |-> IF task[i].stats.averageRating = 0
                                                      THEN 40 ELSE task[i].stats.averageRating])
              /\ task' = [next EXCEPT ![i].ops = @ \cup {"insert_review"},
                                      ![i].inserted = @ + 1]
           \/ /\ reviews' = reviews
              /\ task' = [next EXCEPT ![i].storeErrors = @ \cup {"insert_review"}]
    /\ UNCHANGED <<process, processedFile, driver, tempFiles, authors, genres, books, users,
                   actions, linked, upserted>>

\* the append to data/processed_successfully.txt
MarkComplete(i) ==
    /\ task[i].pc = "mark_complete"
    /\ \/ /\ processedFile' = Append(processedFile, i)
          /\ task' = [task EXCEPT ![i] = [IdleTask EXCEPT !.pc = "cleanup",
                                                          !.result = "ok",
                                                          !.appended = TRUE,
                                                          !.ops = task[i].ops,
                                                          !.storeErrors = task[i].storeErrors]]
       \/ /\ task' = Raise(i, "open")
          /\ processedFile' = processedFile
    /\ UNCHANGED <<process, driver, tempFiles, store>>

\* the append to the completed-ids file moved into the finally block
CleanupMarking(i) ==
    /\ task[i].pc = "cleanup"
    /\ tempFiles' = cleanup_temp(tempFiles, i)
    /\ processedFile' = IF i \in Range(processedFile) THEN processedFile
                        ELSE Append(processedFile, i)
    /\ task' = [task EXCEPT ![i].pc = "done"]
    /\ UNCHANGED <<process, driver, store>>

\* finally: cleanup_temp(gutenberg_id), and the call returns
Cleanup(i) ==
    /\ task[i].pc = "cleanup"
    /\ tempFiles' = cleanup_temp(tempFiles, i)
    /\ task' = [task EXCEPT ![i].pc = "done"]
    /\ UNCHANGED <<process, processedFile, driver, store>>

run_ingestion(i) ==
    \/ Extract(i) \/ DownloadEpub(i) \/ DownloadCover(i) \/ UpsertAuthor(i)
    \/ FetchGenres(i) \/ UpsertGenre(i) \/ Upload(i) \/ InsertBook(i)
    \/ Link(i) \/ UpdateStats(i) \/ Seed(i) \/ FetchReviews(i)
    \/ InsertReview(i) \/ MarkComplete(i) \/ Cleanup(i)

Next ==
    \/ DriverStart
    \/ DriverFinish
    \/ \E i \in IdRange : WorkerStart(i)
    \/ \E i \in IdRange : run_ingestion(i)

Spec == Init /\ [][Next]_vars

\* the pool's threads are scheduled and every call a run makes returns or
\* raises (the network calls carry timeouts); the driver leaves its with-block
\* once every future has completed
LiveSpec ==
    /\ Spec
    /\ WF_vars(DriverFinish)
    /\ \A i \in IdRange : WF_vars(WorkerStart(i)) /\ WF_vars(run_ingestion(i))

\* ---------------------------------------------- the pool with more ids than threads
\* the driver's with-block for a range of NumPoolIds ids, none of them
\* completed before; of a run only its being in progress on a thread and the
\* request it waits for are followed (every call of run_ingestion blocks its
\* thread until the source answers)
PoolIds == 1..NumPoolIds
Sources == {"gutenberg", "goodreads", "mongo"}
PoolTask == [pc |-> "queued", thread |-> 0, request |-> "none"]

PoolInit ==
    /\ env = [vars |-> RequiredVars, ping |-> TRUE]
    /\ mongoHandler = MongoHandler(FreshClass, env).cls
    /\ processedFile = <<>>
    /\ driver = [pc |-> "pool", runs |-> 1, started |-> 0, gutenberg_ids |-> PoolIds]
    /\ task = [i \in PoolIds |-> PoolTask]
    /\ tempFiles = {}
    /\ authors = {}
    /\ genres = {}
    /\ books = {}
    /\ reviews = {}
    /\ users = {}
    /\ actions = {}
    /\ linked = {}
    /\ upserted = {}

InProgress == {i \in PoolIds : task[i].pc = "running"}

\* a pool thread takes the oldest queued call: an idle thread, or a new one
PoolWorkerStart(i) ==
    /\ driver.pc = "pool"
    /\ task[i].pc = "queued"
    /\ \A j \in PoolIds : task[j].pc = "queued" => i <= j
    /\ FreeWorker(InProgress)
    /\ LET busy == {task[j].thread : j \in InProgress}
           free == (1..NumPoolIds) \ busy
           thread == CHOOSE w \in free : \A v \in free : w <= v
       IN  task' = [task EXCEPT ![i].pc = "running", ![i].thread = thread]
    /\ driver' = [driver EXCEPT !.started = @ + 1]
    /\ UNCHANGED <<processedFile, tempFiles, store, process>>

\* the run calls an external source and waits
PoolRequest(i) ==
    /\ task[i].pc = "running"
    /\ task[i].request = "none"
    /\ \E s \in Sources : task' = [task EXCEPT ![i].request = s]
    /\ UNCHANGED <<processedFile, driver, tempFiles, store, process>>

\* the source answers, or the call raises
PoolResponse(i) ==
    /\ task[i].pc = "running"
    /\ task[i].request # "none"
    /\ task' = [task EXCEPT ![i].request = "none"]
    /\ UNCHANGED <<processedFile, driver, tempFiles, store, process>>

\* run_ingestion returns or raises: the thread is free again
PoolReturn(i) ==
    /\ task[i].pc = "running"
    /\ task[i].request = "none"
    /\ task' = [task EXCEPT ![i].pc = "done", ![i].thread = 0]
    /\ UNCHANGED <<processedFile, driver, tempFiles, store, process>>

\* the with-block ends when every submitted future has completed
PoolFinish ==
    /\ driver.pc = "pool"
    /\ \A i \in PoolIds : task[i].pc = "done"
    /\ driver' = [driver EXCEPT !.pc = "off", !.gutenberg_ids = {}]
    /\ UNCHANGED <<processedFile, task, tempFiles, store, process>>

PoolNext ==
    \/ \E i \in PoolIds : PoolWorkerStart(i)
    \/ \E i \in PoolIds : PoolRequest(i)
    \/ \E i \in PoolIds : PoolResponse(i)
    \/ \E i \in PoolIds : PoolReturn(i)
    \/ PoolFinish

PoolSpec == PoolInit /\ [][PoolNext]_vars

\* ================================================================== claims
Ids(coll) == {d.id : d \in coll}
DocsWithSlug(coll, slug) == {d \in coll : d.slug = slug}
OnePerKey(coll) ==
    \A d1, d2 \in coll : (d1.slug = d2.slug \/ d1.id = d2.id) => d1 = d2

\* C1: the books collection holds exactly one Book document for every title
\* slug whose insert_book returned, never two for one slug, and the id a run
\* got back from insert_book is the id of the document with its title's slug.
C1_OneBookPerSlug ==
    /\ OnePerKey(books)
    /\ \A u \in upserted :
          u[1] = "books" => Cardinality(DocsWithSlug(books, u[2])) = 1
    /\ \A i \in IdRange :
          task[i].book_id # None =>
             \E b \in books : /\ b.id = task[i].book_id
                              /\ b.slug = generate_slug(task[i].title)

\* two runs with different cleaned titles of one slug hold the same Book id
C1_Witness ==
    \E i, j \in IdRange :
        /\ task[i].book_id # None
        /\ task[j].book_id = task[i].book_id
        /\ task[i].title # task[j].title
        /\ Cardinality(books) = 1

\* C2: at most one Author per author slug and one Genre per genre slug, one
\* for every slug whose upsert returned, and the id an upsert returned is the
\* id of the document with that slug.
C2_OneAuthorGenrePerSlug ==
    /\ OnePerKey(authors)
    /\ OnePerKey(genres)
    /\ \A u \in upserted :
          /\ u[1] = "authors" => Cardinality(DocsWithSlug(authors, u[2])) = 1
          /\ u[1] = "genres" => Cardinality(DocsWithSlug(genres, u[2])) = 1
    /\ \A i \in IdRange :
          /\ task[i].author_id # None =>
                \E a \in authors : /\ a.id = task[i].author_id
                                   /\ a.slug = generate_slug(task[i].author_name)
          /\ \A k \in 1..Len(task[i].genre_ids) :
                \E g \in genres : /\ g.id = task[i].genre_ids[k]
                                  /\ g.slug = generate_slug(task[i].real_genres[k])

\* two runs with different author names of one slug hold the same Author id,
\* and a run whose two genre names share a slug got the same Genre id twice
C2_Witness ==
    /\ \E i, j \in IdRange :
          /\ task[i].author_id # None
          /\ task[j].author_id = task[i].author_id
          /\ task[i].author_name # task[j].author_name
    /\ \E i \in IdRange :
          /\ Len(task[i].genre_ids) = 2
          /\ task[i].real_genres[1] # task[i].real_genres[2]
          /\ task[i].genre_ids[1] = task[i].genre_ids[2]

NoDuplicates(list) == \A k, l \in 1..Len(list) : list[k] = list[l] => k = l

\* C3: every Author's owned-books list holds no id twice and holds exactly
\* the Book ids link_book_to_author was given for that author.
C3_OwnedBooksAreTheLinkedSet ==
    \A a \in authors :
        /\ NoDuplicates(a.books)
        /\ Range(a.books) = {p[2] : p \in {q \in linked : q[1] = a.id}}

\* two runs have just linked the same Book to the same Author
C3_LinkedTwice ==
    \E i, j \in IdRange :
        /\ i # j
        /\ "link_book_to_author" \in task[i].ops
        /\ "link_book_to_author" \in task[j].ops
        /\ task[i].pc = "update_stats"
        /\ task[j].pc = "update_stats"
        /\ task[i].author_id = task[j].author_id
        /\ task[i].book_id = task[j].book_id

\* ... and the Author's list holds that Book once
C3_Witness ==
    /\ C3_LinkedTwice
    /\ \E a \in authors : Len(a.books) = 1

\* C4: an upsert_author that finds its slug leaves the owned-books list and
\* the creation timestamp of that Author as they were.
C4_UpsertKeepsBooksAndCreatedAt ==
    [][ \A i \in IdRange :
           (task[i].pc = "upsert_author" /\ task'[i].pc = "fetch_genres") =>
              \A a \in DocsWithSlug(authors, generate_slug(task[i].author_name)) :
                 \E b \in authors' : /\ b.id = a.id
                                     /\ b.books = a.books
                                     /\ b.createdAt = a.createdAt ]_vars

\* a run has just upserted an Author made in an earlier driver run who owns a Book
C4_Witness ==
    \E i \in IdRange :
        /\ task[i].pc = "fetch_genres"
        /\ \E a \in authors : /\ a.id = task[i].author_id
                              /\ a.books # <<>>
                              /\ a.createdAt < utcnow

\* C5: when a run is about to call insert_book its author id and all its
\* genre ids (one per resolved genre) are ids of stored documents, and the
\* author and genre references of every stored Book resolve.
C5_ReferencesExistAtBookWrite ==
    /\ \A i \in IdRange :
          task[i].pc \in {"upload", "insert_book"} =>
             /\ task[i].author_id \in Ids(authors)
             /\ Len(task[i].genre_ids) = Len(task[i].real_genres)
             /\ Range(task[i].genre_ids) \subseteq Ids(genres)
    /\ \A b \in books :
          /\ b.author \in Ids(authors)
          /\ Range(b.genre) \subseteq Ids(genres)

\* a Book with two genre references has been written
C5_Witness ==
    \E b \in books : Len(b.genre) = 2 /\ b.author \in Ids(authors)

\* the Author, Genre and Book writes among the operations a run completed
Wrote(i) == task[i].ops \cap {"upsert_author", "upsert_genre", "insert_book"}

Returned(i) == task[i].pc = "done"

\* C6: a run has written an Author, Genre or Book document only if its
\* uploads (the last upstream phase) succeeded, and a run that ended in
\* failure has written none.
C6_NoDocumentBeforeUpstreamSuccess ==
    \A i \in IdRange :
        /\ Wrote(i) # {} => "upload_file" \in task[i].ops
        /\ task[i].result = "failed" => Wrote(i) = {}

\* C7: a run whose catalog lookup came back absent has completed no store
\* operation and no upload and has not appended its id, the id is not in the
\* completed-ids file, and the other calls of the driver can still run: a
\* running one has a step to take, the oldest queued one can be started.
C7_AbsentEntryWritesNothing ==
    \A i \in IdRange :
        task[i].result = "absent" =>
            /\ task[i].ops = {}
            /\ ~task[i].appended
            /\ i \notin Range(processedFile)
            /\ \A j \in IdRange \ {i} :
                  /\ Running(j) => ENABLED run_ingestion(j)
                  /\ ( /\ task[j].pc = "queued"
                       /\ \A k \in IdRange : task[k].pc = "queued" => j <= k )
                        => ENABLED WorkerStart(j)

\* an id ended absent, and the id submitted after it was ingested and recorded
C7_Witness ==
    \E i, j \in IdRange :
        /\ i < j
        /\ Returned(i) /\ task[i].result = "absent"
        /\ Returned(j) /\ task[j].result = "ok"
        /\ j \in Range(processedFile)

\* C8: download_asset raises when all 3 attempts fail, and a run whose e-book
\* download raised made 3 attempts, ended in failure, wrote no Author, Genre or
\* Book, did not append its id (which is not in the completed-ids file), and
\* has no temporary directory once it returned.
C8_EpubDownloadExhausted ==
    /\ ~download_asset([k \in 1..max_retries |-> FALSE]).ok
    /\ \A i \in IdRange :
          task[i].err = "download_epub" =>
              /\ task[i].attempts = max_retries
              /\ task[i].result = "failed"
              /\ Wrote(i) = {}
              /\ ~task[i].appended
              /\ i \notin Range(processedFile)
              /\ Returned(i) => i \notin tempFiles

\* a run returned after its e-book download raised, while another id's
\* temporary directory is in use
C8_Witness ==
    \E i, j \in IdRange :
        /\ Returned(i) /\ task[i].err = "download_epub"
        /\ j \in tempFiles

\* C9: a run that appended its id ended without a raise and had completed the
\* Book write, the author link and the social-proof writes; a run that ended
\* in failure did not append and its id is not in the completed-ids file;
\* and a driver run submits every id of the range that is not in the file.
C9_MarkedCompleteOnlyAfterSuccess ==
    /\ \A i \in IdRange :
          /\ task[i].appended =>
                /\ task[i].result = "ok"
                /\ task[i].err = "none"
                /\ {"insert_book", "link_book_to_author", "update_book_social_stats",
                    "seed_social_proof", "get_or_create_system_user"} \subseteq task[i].ops
          /\ task[i].result = "failed" =>
                /\ ~task[i].appended
                /\ i \notin Range(processedFile)
    /\ driver.pc = "pool" =>
          \A i \in IdRange : i \notin Range(processedFile) => i \in driver.gutenberg_ids

\* the second driver run has submitted again an id whose first run wrote its
\* Book and then failed, next to an id that was recorded as complete
C9_Witness ==
    /\ driver.runs = 2
    /\ driver.gutenberg_ids = {1}
    /\ task[1].pc = "queued"
    /\ \E b \in books : b.title = clean_title(PageEmma.title)
    /\ processedFile = <<2>>

\* C10: a run that met a store error in any of its store operations ended in
\* failure and did not append its id to the completed-ids file.
C10_StoreErrorAbortsTheId ==
    \A i \in IdRange :
        (Returned(i) /\ task[i].storeErrors # {}) =>
            /\ task[i].result = "failed"
            /\ ~task[i].appended
            /\ i \notin Range(processedFile)

\* C11: a call that is not running (not yet started, or returned after success,
\* an absent catalog entry or a failure) has no temporary directory, and a
\* temporary directory disappears only in the cleanup step of its own id.
C11_TempDirRemovedOnReturn ==
    /\ [](\A i \in IdRange : ~Running(i) => i \notin tempFiles)
    /\ [][ \A j \in IdRange :
              (j \in tempFiles /\ j \notin tempFiles') =>
                  (task[j].pc = "cleanup" /\ task'[j].pc = "done") ]_vars

\* a run that had downloaded its assets and then failed has returned, its
\* directory is gone, and the other id's directory is still there
C11_Witness ==
    \E i, j \in IdRange :
        /\ Returned(i) /\ task[i].result = "failed"
        /\ "upsert_author" \in task[i].ops
        /\ i \notin tempFiles
        /\ j \in tempFiles

C13_SubmitsRemainingIdsOnce ==
    [][ \A i \in IdRange :
           /\ (task[i].pc # "queued" /\ task'[i].pc = "queued") =>
                 /\ driver.pc = "off" /\ driver'.pc = "pool"
                 /\ i \notin Range(processedFile)
           /\ (driver.pc = "off" /\ driver'.pc = "pool") =>
                 /\ driver'.gutenberg_ids = {j \in IdRange : j \notin Range(processedFile)}
                 /\ task'[i].pc = IF i \in Range(processedFile) THEN "idle" ELSE "queued"
           /\ (task[i].pc # "extract" /\ task'[i].pc = "extract") =>
                 /\ task[i].pc = "queued"
                 /\ i \in driver.gutenberg_ids
                 /\ i \notin Range(processedFile) ]_vars

\* the second driver run has started the one id left, the other is in the file
C13_Witness ==
    /\ driver.runs = 2
    /\ processedFile = <<1>>
    /\ task[1].pc = "idle"
    /\ task[2].pc = "extract"

ReviewsOf(book_id) == {r \in reviews : r.book = book_id}

AllEnrichments == {"publication_year", "genre_list", "modern_cover", "isbn"}

\* C15: a run that is about to start its first asset download, or is between
\* its two downloads, has made all four enrichment resolutions.
C15_EnrichmentBeforeDownload ==
    \A i \in IdRange :
        task[i].pc \in {"download_epub", "download_cover"} =>
            AllEnrichments \subseteq task[i].resolved

\* C16: no run ends in failure because its cover download used up its
\* attempts, while a run whose e-book download used them up ends in failure.
C16_CoverFailureDoesNotAbort ==
    \A i \in IdRange :
        /\ task[i].err = "download_epub" => task[i].result = "failed"
        /\ ~(task[i].result = "failed" /\ task[i].err = "download_cover")

\* the calls run_ingestion makes into the source adapters
AdapterCalls ==
    {"fetch_book_data", "get_modern_cover_url", "fetch_publication_year",
     "fetch_author_extra_details", "fetch_goodreads_genres",
     "fetch_long_wikipedia_description", "fetch_social_stats",
     "fetch_rating_fallback", "fetch_isbn", "fetch_reviews"}

\* C17: no run ends in failure because a source-adapter call raised.
C17_AdapterFailureNeverAborts ==
    \A i \in IdRange :
        task[i].result = "failed" => task[i].err \notin AdapterCalls

\* C18: every stored Book has a description that is not empty.
C18_NoEmptyDescription ==
    \A b \in books : b.description > 0

IsClassic(book_title) ==
    \E x \in ClassicTerms : Contains(LowerStr(book_title), x)

\* ratings (in tenths) and cleaned titles the editor-pick rule is tabulated on
SampleRatings == {0, 10, 40, 41, 42, 43, 46, 50}
SampleTitles ==
    {clean_title(TitleEmma), clean_title(TitleEmmaBy), clean_title(TitlePride),
     clean_title(TitleDracula), UnknownTitle,
     <<"T","h","e"," ","G","r","e","a","t"," ","G","A","T","S","B","Y">>,
     <<"W","a","r"," ","a","n","d"," ","P","e","a","c","e">>,
     <<"W","a","r"," ","a","n","d"," "," ","P","e","a","c","e">>}

EditorPickTable ==
    \A r \in SampleRatings, t \in SampleTitles :
        LET pick == EditorPick([averageRating |-> r, numReviews |-> 0], t)
        IN  /\ r >= 42 => pick
            /\ IsClassic(t) => pick
            /\ (r < 42 /\ ~IsClassic(t)) => ~pick

C20_HighRatedBookIsEditorPick ==
    [][ \A i \in IdRange :
           ( /\ task[i].pc = "mark_complete"
             /\ task'[i].appended
             /\ task[i].stats.averageRating >= PickRating )
             => \E b \in books' : b.id = task[i].book_id /\ b.editorPick ]_vars

\* C21: a Book whose editorPick is true keeps editorPick = true in every step.
C21_EditorPickNeverDowngraded ==
    [][ \A b \in books :
           b.editorPick => \E c \in books' : c.id = b.id /\ c.editorPick ]_vars

\* a run that derived editorPick = false has upserted a Book that was created
\* with editorPick = true, and the Book still has it
C21_Witness ==
    \E i \in IdRange :
        /\ task[i].pc = "link"
        /\ ~task[i].editorPick
        /\ \E b \in books : b.id = task[i].book_id /\ b.editorPick

\* C22: the publicationDate of every stored Book is null when no source yields
\* a year for the Book's title, and otherwise carries the resolved year.
C22_PublicationDateIsYearOrNull ==
    \A b \in books :
        LET pub_year == fetch_publication_year(YearSources(b.title))
        IN  IF pub_year = None
            THEN b.publicationDate = NullDate
            ELSE /\ b.publicationDate.type # "now"
                 /\ b.publicationDate.year = ToInt(pub_year)

\* the averageRating the sources give for a title: the fallback's when the
\* bibliographic one is zero or absent, else the bibliographic one
ExpectedRatings(book_title) ==
    {(IF google.averageRating = 0 THEN fallback.averageRating ELSE google.averageRating) :
        google \in GoogleStats(book_title), fallback \in FallbackStats(book_title)}

\* C23: when a run has completed all its store writes and is about to record
\* its id, the averageRating of its Book is the fallback's rating if the
\* bibliographic rating was zero or absent, and else the bibliographic rating.
C23_PersistedRatingIsResolved ==
    \A i \in IdRange :
        task[i].pc = "mark_complete" =>
            \E b \in books :
                /\ b.id = task[i].book_id
                /\ b.averageRating \in ExpectedRatings(task[i].title)

\* C24: the genre list a run resolved has at most 5 entries, no two entries
\* equal up to letter case, and no blacklisted shelf tag in any letter case.
C24_GenreListCappedAndClean ==
    \A i \in IdRange :
        LET g == task[i].real_genres
        IN  /\ Len(g) <= GenreCap
            /\ \A a, b \in 1..Len(g) : a # b => LowerStr(g[a]) # LowerStr(g[b])
            /\ \A a \in 1..Len(g) : NotBlacklisted(g[a])

\* C25: for every sequence of attempt outcomes download_asset makes at most 3
\* attempts; it returns at the first successful attempt, having failed every
\* earlier one, and raises only when all 3 attempts failed; a run whose e-book
\* or cover download raised made 3 attempts.
C25_AtMostThreeAttempts ==
    /\ \A outs \in AttemptOutcomes :
          LET r == download_asset(outs)
          IN  /\ r.attempts \in 1..max_retries
              /\ r.ok <=> \E k \in 1..max_retries : outs[k]
              /\ r.ok => /\ outs[r.attempts]
                         /\ \A k \in 1..(r.attempts - 1) : ~outs[k]
              /\ ~r.ok => r.attempts = max_retries
    /\ max_retries = 3
    /\ \A i \in IdRange :
          task[i].err \in {"download_epub", "download_cover"} =>
              task[i].attempts = max_retries

\* a run returned after its cover download raised on the third attempt, and
\* another run has got both its assets
C25_Witness ==
    \E i, j \in IdRange :
        /\ Returned(i) /\ task[i].err = "download_cover"
        /\ task[i].attempts = max_retries
        /\ task[j].pc = "upsert_author"

\* e-books of every shape: unreadable, no item, items without heading or long
\* paragraph or a page of text, an item that cannot be read, and full ones
SampleEpubs ==
    {EpubOf(t) : t \in {TitleEmma, TitlePride, clean_title(TitleDracula)}}
    \cup { [readable |-> TRUE, items |-> <<>>],
           [readable |-> TRUE, items |-> <<ItemChapterI, ItemBroken>>],
           [readable |-> TRUE, items |-> <<ItemChapterII>>],
           [readable |-> FALSE, items |-> <<ItemChapterI>>] }

\* C26: parse_epub_details returns for every e-book: the placeholder chapter
\* "Full Book", page count 0 and the empty excerpt when the container cannot
\* be parsed, and otherwise a non-empty chapter list and a page count of at
\* least 1; a run that got its assets goes on with these values and every
\* stored Book carries them.
C26_ParseNeverFails ==
    /\ \A epub \in SampleEpubs :
          LET r == parse_epub_details(epub)
          IN  IF Parseable(epub)
              THEN Len(r.chapters) >= 1 /\ r.page_count >= 1
              ELSE r = FullBook
    /\ \A b \in books :
          /\ Len(b.chapters) >= 1
          /\ IF Parseable(EpubOf(b.title)) THEN b.pageCount >= 1
             ELSE b.pageCount = 0 /\ b.chapters = FullBook.chapters
    /\ \A i \in IdRange : task[i].err # "parse_epub_details"

\* a Book was stored for an e-book that could not be read, with the
\* placeholder chapter and page count 0, and one for a parseable e-book
C26_Witness ==
    /\ \E b \in books : b.chapters = FullBook.chapters /\ b.pageCount = 0
    /\ \E b \in books : Parseable(EpubOf(b.title)) /\ b.pageCount >= 1

\* C27: in every state MongoHandler has constructed at most one instance and
\* at most one store client and every run holds the one instance of the
\* class; every MongoHandler() call of a worker, in whatever order the workers
\* make them, returns the instance that was there and constructs nothing.
C27_OneInstanceOneClient ==
    /\ [](/\ mongoHandler.instances <= 1
          /\ mongoHandler.clients <= 1
          /\ \A i \in IdRange :
                task[i].mongo # None => task[i].mongo = mongoHandler._instance)
    /\ [][ \A i \in IdRange :
              (task[i].pc = "queued" /\ task'[i].pc # "queued") =>
                  /\ task'[i].mongo = mongoHandler._instance
                  /\ mongoHandler' = mongoHandler ]_vars

\* two runs are in progress at the same time, both with the instance the
\* warm-up call made, and one client was constructed
C27_Witness ==
    /\ mongoHandler.clients = 1
    /\ \E i, j \in IdRange :
          /\ i # j
          /\ Running(i) /\ Running(j)
          /\ task[i].mongo = <<"MongoHandler", 1>>
          /\ task[j].mongo = task[i].mongo

\* C28: when a required configuration value is absent or the store cannot be
\* reached, no id is ever submitted to the pool and no run starts.
C28_MissingConfigAbortsBeforeSubmit ==
    (env.vars # RequiredVars \/ ~env.ping) =>
        /\ driver.pc = "off"
        /\ driver.started = 0
        /\ \A i \in IdRange : task[i].pc = "idle"

\* C30: the seed_social_proof step of a run sets the counters of its Book,
\* whatever they were: with n the run's numReviews (10 when it is 0),
\* likesCount is in floor(1.5 n) + 1 .. floor(1.5 n) + 10, readsCount is in
\* 5 n + 10 .. 5 n + 50 and trendingScore is 3 likesCount + readsCount.
C30_SeedOverwritesCounters ==
    [][ \A i \in IdRange :
           (task[i].pc = "seed" /\ task'[i].pc = "fetch_reviews") =>
               \E b \in books' :
                   LET n == IF task[i].stats.numReviews = 0 THEN 10
                            ELSE task[i].stats.numReviews
                       half == (3 * n) \div 2
                   IN  /\ b.id = task[i].book_id
                       /\ b.likesCount \in (half + 1)..(half + 10)
                       /\ b.readsCount \in (5 * n + 10)..(5 * n + 50)
                       /\ b.trendingScore = 3 * b.likesCount + b.readsCount ]_vars

\* a run with 12 reviews has just seeded its Book with the lowest draws, after
\* another run with 100 reviews had seeded the same Book
C30_Witness ==
    \E i, j \in IdRange :
        /\ i # j
        /\ task[i].pc = "fetch_reviews" /\ task[i].stats.numReviews = 12
        /\ "seed_social_proof" \in task[j].ops /\ task[j].stats.numReviews = 100
        /\ task[j].book_id = task[i].book_id
        /\ \E b \in books :
              /\ b.id = task[i].book_id
              /\ b.likesCount = 19 /\ b.readsCount = 70 /\ b.trendingScore = 127

\* C29: at every moment at most 5 runs are in progress, each on a thread of
\* its own out of 5, so that no source has more than 5 requests waiting; and a
\* run stays on its thread from its start to its return.
C29_AtMostFiveRuns ==
    /\ [](/\ Cardinality(InProgress) <= 5
          /\ \A i \in InProgress : task[i].thread \in 1..5
          /\ \A i, j \in InProgress : i # j => task[i].thread # task[j].thread
          /\ \A s \in Sources :
                Cardinality({i \in InProgress : task[i].request = s}) <= 5)
    /\ [][ \A i \in PoolIds :
              (task[i].pc = "running" /\ task'[i].pc = "running") =>
                  task'[i].thread = task[i].thread ]_vars

\* five runs wait for the same source, a sixth id is queued and cannot be
\* started, and one run has returned
C29_Witness ==
    /\ Cardinality(InProgress) = 5
    /\ \A i \in InProgress : task[i].request = "gutenberg"
    /\ \E i \in PoolIds : task[i].pc = "done"
    /\ \E i \in PoolIds : task[i].pc = "queued" /\ ~ENABLED PoolWorkerStart(i)

\* C31: the cover URL a run got from get_modern_cover_url comes from the first
\* candidate, in the order open catalog, bibliographic image, archive cover,
\* that has one, and its bytes were checked to decode as an image before it
\* was returned.
C31_CoverUrlValidated ==
    \A i \in IdRange :
        task[i].modern_cover_url # NoCover =>
            /\ task[i].modern_cover_url.candidate
                  \in {"openlibrary", "google_books", "gutenberg"}
            /\ task[i].modern_cover_url.validated

\* the places in a string where a run of exactly 4 consecutive digits starts
FourDigitRuns(s) ==
    {k \in 1..(Len(s) - 3) :
        /\ \A d \in 0..3 : s[k + d] \in Digits
        /\ (k = 1 \/ s[k - 1] \notin Digits)
        /\ (k + 4 > Len(s) \/ s[k + 4] \notin Digits)}

\* C32: for every date a source gave for the title of a run, _clean_year
\* returns the run of 4 digits when the date holds exactly one, and absence
\* when it holds none (or is empty).
C32_CleanYearFindsTheRun ==
    \A i \in IdRange :
        task[i].title # None =>
            \A n \in 1..Len(YearSources(task[i].title)) :
                LET date_str == YearSources(task[i].title)[n]
                    runs == FourDigitRuns(date_str)
                IN  /\ Cardinality(runs) = 1 =>
                          \E k \in runs : _clean_year(date_str) = SubSeq(date_str, k, k + 3)
                    /\ runs = {} => _clean_year(date_str) = None

Least(S) == CHOOSE x \in S : \A y \in S : x <= y

\* the stages of a year waterfall whose date holds a year, and the stages of a
\* stats waterfall that answer with a rated volume
YearYielding(stages) == {n \in 1..Len(stages) : _clean_year(stages[n]) # None}
StatsYielding(stages) == {n \in 1..Len(stages) : RatedItems(stages[n]) # {}}

YearSamples ==
    {YearSources(t) : t \in CatalogTitles}
    \cup { << NoDate, <<"1","8","1","6">>, <<"1","9","9","8">> >>,
           << <<"n",".","d","."," ","1","9">>, <<"1","9","0","1">>, NoDate >> }

StatsSamples ==
    {StatsStages(t) : t \in CatalogTitles}
    \cup { << [ok |-> TRUE, items |-> <<[rated |-> TRUE, averageRating |-> 35,
                                         ratingsCount |-> 7]>>],
              [ok |-> TRUE, items |-> <<[rated |-> TRUE, averageRating |-> 45,
                                         ratingsCount |-> 9]>>],
              [ok |-> FALSE, items |-> <<>>] >>,
           << [ok |-> FALSE, items |-> <<>>],
              [ok |-> TRUE, items |-> <<Unrated>>],
              [ok |-> TRUE, items |-> <<Unrated,
                                        [rated |-> TRUE, averageRating |-> 38,
                                         ratingsCount |-> 4]>>] >> }

RECURSIVE TotalTextLength(_)
TotalTextLength(items) ==
    IF items = <<>> THEN 0 ELSE Head(items).text + TotalTextLength(Tail(items))

\* C34: the pageCount of every stored Book with a parseable e-book is the total
\* length of the text of its items divided by 1500, rounded down, and at
\* least 1.
C34_PageCountFromTotalLength ==
    \A b \in books :
        Parseable(EpubOf(b.title)) =>
            LET pages == TotalTextLength(EpubOf(b.title).items) \div 1500
            IN  b.pageCount = IF pages > 1 THEN pages ELSE 1

\* C35: in every state a further MongoHandler() call in the process either
\* raises or returns the instance with its collections assigned, also after a
\* construction attempt that failed.
C35_NoHalfConstructedInstance ==
    LET again == MongoHandler(mongoHandler, env)
    IN  \/ again.raised
        \/ /\ again.instance = again.cls._instance
           /\ again.cls.initialised

\* C36: once every run started so far has succeeded and returned, every Book's
\* id is in the owned-books list of the Author its author field names, and
\* every id in an Author's owned-books list is that of a Book whose author
\* field names this Author.
C36_AuthorBookReferencesAgree ==
    ( /\ \A i \in IdRange : task[i].pc \in {"idle", "done"}
      /\ Len(processedFile) = driver.started )
        => /\ \A b \in books :
                 \E a \in authors : a.id = b.author /\ b.id \in Range(a.books)
           /\ \A a \in authors :
                 \A book_id \in Range(a.books) :
                     \E b \in books : b.id = book_id /\ b.author = a.id

\* C37: in every state, every id in the completed-ids file has a Book for the
\* slug of the cleaned title of its catalog page; the Book's author field
\* names an Author that exists and whose owned-books list holds the Book's
\* id, and every entry of its genre field names a Genre that exists.
C37_CompletedIdsHaveLinkedBook ==
    \A i \in Range(processedFile) :
        \E p \in Pages(i) :
            \E b \in books :
                /\ b.slug = generate_slug(clean_title(p.title))
                /\ \E a \in authors : a.id = b.author /\ b.id \in Range(a.books)
                /\ \A k \in 1..Len(b.genre) : \E g \in genres : g.id = b.genre[k]

\* C38: a stored Book's averageRating and numReviews change only in a step
\* of update_book_social_stats; in particular the Book upsert of insert_book
\* leaves the counters of a Book that already exists as they were.
C38_RatingCountersOnlyByStatsUpdate ==
    [][\A b \in books : \A updated \in books' :
          ( /\ updated.id = b.id
            /\ \/ updated.averageRating # b.averageRating
               \/ updated.numReviews # b.numReviews )
              => \E i \in IdRange : /\ task[i].pc = "update_stats"
                                    /\ task'[i].pc = "seed"]_vars

\* run i has linked its Book to its Author and is still in flight
HasLinked(i) ==
    /\ "link_book_to_author" \in task[i].ops
    /\ task[i].author_name # None
    /\ task[i].book_id # None

\* C39: whenever two runs for different ids whose author names give the same
\* slug have both linked their Books, in whatever order their store
\* operations were interleaved, exactly one Author document has that slug and
\* its owned-books list holds both Book ids; and no later step gives the slug
\* a second document or takes an id out of an owned-books list, so the same
\* is true after both runs have succeeded.
C39_SameSlugAuthorOwnsBothBooks ==
    /\ [](\A i, j \in IdRange :
            ( /\ i # j
              /\ HasLinked(i)
              /\ HasLinked(j)
              /\ generate_slug(task[i].author_name) = generate_slug(task[j].author_name) )
                => LET docs == DocsWithSlug(authors, generate_slug(task[i].author_name))
                   IN  /\ Cardinality(docs) = 1
                       /\ \A a \in docs :
                             {task[i].book_id, task[j].book_id} \subseteq Range(a.books))
    /\ [][\A a \in authors :
             /\ \A later \in DocsWithSlug(authors', a.slug) : later.id = a.id
             /\ \E later \in authors' : /\ later.id = a.id
                                        /\ later.slug = a.slug
                                        /\ Range(a.books) \subseteq Range(later.books)]_vars

\* two workers hold different Books of one Author at the same time, both
\* linked and neither run failed, and the one Author document owns both
C39_Witness ==
    \E i, j \in IdRange :
        /\ i # j
        /\ HasLinked(i)
        /\ HasLinked(j)
        /\ task[i].pc = "update_stats"
        /\ task[j].pc = "update_stats"
        /\ task[i].author_id = task[j].author_id
        /\ task[i].book_id # task[j].book_id
        /\ \E a \in authors : /\ a.id = task[i].author_id
                              /\ Len(a.books) = 2
                              /\ Cardinality(authors) = 1

====
